---- MODULE Spec2Model ----
(***************************************************************************)
(* A model of the two Gemini client scripts:                               *)
(*   src/generateResponse-gemini.py  (the CLI script, "cli")               *)
(*   src/generateResponse.py         (the library script, "lib")           *)
(*                                                                         *)
(* Python dicts are TLA+ functions over their key sets ("k" in d is        *)
(* k \in DOMAIN d), lists are sequences (0-based Python index i is i + 1), *)
(* text and byte strings are sequences of one-character strings / byte     *)
(* values where the code looks inside them, and plain strings otherwise.   *)
(***************************************************************************)
EXTENDS Integers, Sequences, FiniteSets, TLC

----------------------------------------------------------------------------
(* Bounds of the model. *)

\* longest sys.argv enumerated (script name included)
MaxArgv == 5
\* most candidates in an API response
MaxCandidates == 2
\* most content parts in an API response, summed over its candidates
MaxParts == 2

----------------------------------------------------------------------------
(* Python values. *)

\* Python's None, for Optional[Dict] values.
None == [py |-> "None"]

\* Python's None, for Optional[str] values.
NoneStr == "<None>"

\* the empty dict {}
EmptyDict == [k \in {} |-> 0]

\* bool(d) of an Optional[Dict]: None and {} are falsy.
Truthy(d) == d # None /\ DOMAIN d # {}

\* bool(s) of an Optional[str]: None and "" are falsy.
TruthyStr(s) == s # NoneStr /\ s # ""

\* str(n) of a non-negative int, as a sequence of characters.
RECURSIVE Str(_)
Str(n) ==
    LET d == <<"0", "1", "2", "3", "4", "5", "6", "7", "8", "9">>
    IN  IF n < 10 THEN <<d[n + 1]>> ELSE Str(n \div 10) \o <<d[(n % 10) + 1]>>

\* the characters str.strip() removes
Whitespace == {" ", "\n", "\t", "\r"}

\* str.strip(): drop leading and trailing whitespace.
RECURSIVE Strip(_)
Strip(s) ==
    IF s = <<>> THEN s
    ELSE IF Head(s) \in Whitespace THEN Strip(Tail(s))
    ELSE IF s[Len(s)] \in Whitespace THEN Strip(SubSeq(s, 1, Len(s) - 1))
    ELSE s

----------------------------------------------------------------------------
(* base64 (the standard alphabet), as binascii computes it. *)

B64Chars ==
    <<"A", "B", "C", "D", "E", "F", "G", "H", "I", "J", "K", "L", "M",
      "N", "O", "P", "Q", "R", "S", "T", "U", "V", "W", "X", "Y", "Z",
      "a", "b", "c", "d", "e", "f", "g", "h", "i", "j", "k", "l", "m",
      "n", "o", "p", "q", "r", "s", "t", "u", "v", "w", "x", "y", "z",
      "0", "1", "2", "3", "4", "5", "6", "7", "8", "9", "+", "/">>

IsB64(c) == \E i \in 1..Len(B64Chars) : B64Chars[i] = c

\* the 6-bit value of an alphabet character
B64Value(c) == (CHOOSE i \in 1..Len(B64Chars) : B64Chars[i] = c) - 1

\* binascii.a2b_base64 in its default (non-strict) mode: characters outside
\* the alphabet are skipped, a pad at quad position 0 or 1 is skipped, a
\* pad sequence completing a quad ends the input, and input ending inside a
\* quad is an error.
RECURSIVE A2B(_, _, _, _, _)
A2B(s, quad_pos, leftchar, pads, out) ==
    IF s = <<>>
    THEN [ok |-> quad_pos = 0, bytes |-> out]
    ELSE LET c == Head(s)
             v == B64Value(c)
         IN  IF c = "="
             THEN IF quad_pos >= 2 /\ quad_pos + pads + 1 >= 4
                  THEN [ok |-> TRUE, bytes |-> out]
                  ELSE A2B(Tail(s), quad_pos, leftchar,
                           IF quad_pos >= 2 THEN pads + 1 ELSE pads, out)
             ELSE IF ~IsB64(c)
             THEN A2B(Tail(s), quad_pos, leftchar, pads, out)
             ELSE CASE quad_pos = 0 ->
                         A2B(Tail(s), 1, v, 0, out)
                    [] quad_pos = 1 ->
                         A2B(Tail(s), 2, v % 16, 0,
                             Append(out, (leftchar * 4 + v \div 16) % 256))
                    [] quad_pos = 2 ->
                         A2B(Tail(s), 3, v % 4, 0,
                             Append(out, (leftchar * 16 + v \div 4) % 256))
                    [] OTHER ->
                         A2B(Tail(s), 0, 0, 0,
                             Append(out, (leftchar * 64 + v) % 256))

\* base64.b64decode(s): [ok, bytes]; ok = FALSE stands for binascii.Error.
b64decode(s) == A2B(s, 0, 0, 0, <<>>)

\* base64.b64encode(b): three bytes to four characters, "=" padded.
RECURSIVE b64encode(_)
b64encode(b) ==
    LET ch(v) == B64Chars[v + 1]
    IN  IF b = <<>> THEN <<>>
        ELSE IF Len(b) = 1
        THEN <<ch(b[1] \div 4), ch((b[1] % 4) * 16), "=", "=">>
        ELSE IF Len(b) = 2
        THEN <<ch(b[1] \div 4), ch((b[1] % 4) * 16 + b[2] \div 16),
               ch((b[2] % 16) * 4), "=">>
        ELSE <<ch(b[1] \div 4), ch((b[1] % 4) * 16 + b[2] \div 16),
               ch((b[2] % 16) * 4 + b[3] \div 64), ch(b[3] % 64)>>
             \o b64encode(SubSeq(b, 4, Len(b)))

----------------------------------------------------------------------------
(* json and mimetypes, as far as the scripts use them. *)

\* json.dumps(v): the JSON text of a value.
JsonDumps(v) == [kind |-> "json", doc |-> v]

\* a response body that is not JSON (an empty body, an HTML error page)
MalformedText == [kind |-> "text"]

\* json.loads / response.json(): [ok, value]; ok = FALSE stands for
\* JSONDecodeError.
JsonLoads(text) ==
    IF text.kind = "json" THEN [ok |-> TRUE, value |-> text.doc]
    ELSE [ok |-> FALSE, value |-> EmptyDict]

\* d.get(k, default)
Get(d, k, default) == IF k \in DOMAIN d THEN d[k] ELSE default

\* mimetypes.guess_type(path)[0], on the attachment paths of the model
GuessType(path) ==
    CASE path = "image.png" -> "image/png"
      [] OTHER -> NoneStr

\* mimetypes.guess_extension(mime_type), on the MIME types of the model
GuessExtension(mime_type) ==
    CASE mime_type = "image/png" -> ".png"
      [] mime_type = "application/octet-stream" -> ".bin"
      [] OTHER -> NoneStr

----------------------------------------------------------------------------
(* The environment: the command line, the local files, the clock and the   *)
(* remote service.                                                         *)

\* the command lines: every prefix of
\*   script max_tokens system_instruction_file user_prompt_file binary_file ...
ArgvOf(tok, n) ==
    [i \in 1..n |->
        CASE i = 1 -> "generateResponse-gemini.py"
          [] i = 2 -> tok
          [] i = 3 -> "system.txt"
          [] i = 4 -> "prompt.txt"
          [] i = 5 -> "image.png"
          [] OTHER -> "extra"]

Argvs == {ArgvOf(tok, n) : tok \in {"1024", "many"}, n \in 1..MaxArgv}

\* the local files the CLI script may open
Paths == {"system.txt", "prompt.txt", "image.png", "api.key"}

\* what reading a readable file returns
FileContents(path) ==
    CASE path = "system.txt" -> "You are terse."
      [] path = "prompt.txt" -> "Describe the image."
      [] path = "image.png"  -> <<137, 80>>
      [] OTHER               -> <<" ", "K", "E", "Y", "\n">>

\* int(s), on the command-line tokens of the model: [ok, value]; ok = FALSE
\* stands for ValueError.
IntOf(s) ==
    IF s = "1024" THEN [ok |-> TRUE, value |-> 1024]
    ELSE [ok |-> FALSE, value |-> 0]

\* values of datetime.now().strftime("%Y%m%d_%H%M%S_%f")
Timestamps == {"20250101_120000_000001", "20250101_120000_000002"}

\* base64 payloads of response parts
DataAB == <<"Q", "U", "\n", "I", "=">>
DataFF == <<"/", "w", "=", "=">>
DataTruncated == <<"Q", "U", "I">>

\* the content parts a response may hold
PartKinds ==
    { [text |-> "ok"],
      [inline_data |-> [mime_type |-> "image/png", data |-> DataAB]],
      [inline_data |-> [data |-> DataFF]],
      [inline_data |-> [mime_type |-> "application/x-none", data |-> DataAB]],
      [inline_data |-> [mime_type |-> "image/png"]],
      [inline_data |-> [mime_type |-> "image/png", data |-> DataTruncated]] }

\* sequences over S of length at most n
RECURSIVE SeqsUpTo(_, _)
SeqsUpTo(S, n) ==
    IF n <= 0 THEN {<<>>}
    ELSE LET shorter == SeqsUpTo(S, n - 1)
         IN  shorter \cup {Append(s, x) : s \in {t \in shorter : Len(t) = n - 1}, x \in S}

\* number of parts of a candidate
NParts(candidate) ==
    IF "content" \in DOMAIN candidate /\ "parts" \in DOMAIN candidate.content
    THEN Len(candidate.content.parts)
    ELSE 0

\* candidates with at most n parts; "content" and "parts" may be absent
CandidateShapes(n) ==
    {EmptyDict, [content |-> EmptyDict]}
        \cup {[content |-> [parts |-> ps]] : ps \in SeqsUpTo(PartKinds, n)}

\* candidate lists of at most k candidates and at most n parts in all
RECURSIVE CandidateLists(_, _)
CandidateLists(k, n) ==
    IF k = 0 THEN {<<>>}
    ELSE {<<>>} \cup
         UNION { {<<c>> \o rest : rest \in CandidateLists(k - 1, n - NParts(c))} :
                 c \in CandidateShapes(n) }

\* the JSON documents a successful response may carry
Responses ==
    {EmptyDict} \cup {[candidates |-> cs] : cs \in CandidateLists(MaxCandidates, MaxParts)}

\* the JSON document of an error response
ErrorBody == [error |-> "rate limited"]

\* what requests.post may return
ServerResponses ==
    {[status_code |-> 200, text |-> JsonDumps(r)] : r \in Responses}
        \cup {[status_code |-> s, text |-> t] :
                s \in {200, 204, 304, 404, 429, 500},
                t \in {JsonDumps(ErrorBody), MalformedText}}

----------------------------------------------------------------------------
(* The state of one run. *)

VARIABLES
    entry,          \* what runs: "cli_main", "lib_main" (the scripts), or
                    \* "cli_call", "lib_call" (call_gemini_api called directly)
    pc,             \* position in the code
    fault,          \* the uncaught exception that ended the run, if any
    exit_code,      \* the argument of sys.exit, -1 if it was not called
    argv,           \* sys.argv
    unreadable,     \* the local files whose open() fails
    max_tokens, system_instruction_text, user_prompt_text, inline_data,
    API_KEY,        \* the locals of the CLI script's __main__
    args,           \* the arguments of call_gemini_api
    payload,        \* the payload call_gemini_api built
    sent,           \* the HTTP requests posted so far
    response,       \* what requests.post returned
    result,         \* what call_gemini_api returned
    idx, part_idx,  \* the extractor's loop indices
    files,          \* the files written: name -> bytes
    stdout          \* what was printed, in order

mainLocals ==
    <<max_tokens, system_instruction_text, user_prompt_text, inline_data, API_KEY>>
callVars == <<args, payload, sent, response, result>>
extractVars == <<idx, part_idx, files>>
envVars == <<entry, argv, unreadable>>
vars ==
    <<entry, pc, fault, exit_code, argv, unreadable, max_tokens,
      system_instruction_text, user_prompt_text, inline_data, API_KEY, args,
      payload, sent, response, result, idx, part_idx, files, stdout>>

IsCli == entry \in {"cli_main", "cli_call"}

\* no exception was raised
NoFault == [exc |-> "none"]

\* an exception of a type
Exc(type) == [exc |-> type]

\* the HTTPError raise_for_status raises: its message names the status code
\* (and the reason and the URL), not the response body
HTTPError(r) == [exc |-> "HTTPError", status_code |-> r.status_code]

\* an uncaught exception ends the run where it is raised
Raise(e) == pc' = "fault" /\ fault' = e /\ UNCHANGED exit_code

Goto(label) == pc' = label /\ UNCHANGED <<fault, exit_code>>

----------------------------------------------------------------------------
(* Arguments of direct calls of call_gemini_api. *)

Prompts == {"", "Hello, how are you?"}

SystemInstructions ==
    {None, EmptyDict, [parts |-> <<[text |-> "You are a helpful assistant."]>>]}

InlineDatas ==
    {None, EmptyDict, [mime_type |-> "image/png", data |-> b64encode(<<137, 80>>)]}

\* the CLI script's call_gemini_api with its defaults
CliArgs(api_key, prompt, tokens, system_instruction, inline) ==
    [api_key |-> api_key,
     gemini_user_prompt |-> prompt,
     gemini_max_tokens |-> tokens,
     gemini_system_instruction |-> system_instruction,
     gemini_inline_data |-> inline,
     gemini_temperature |-> "1.0",
     gemini_top_p |-> "0.95",
     gemini_top_k |-> 40,
     gemini_candidate_count |-> 1,
     gemini_safety_threshold |-> "BLOCK_ONLY_HIGH",
     gemini_api_version |-> "v1beta",
     model |-> "gemini-2.5-pro"]

\* the library script's call_gemini_api with its defaults
LibArgs(api_key, prompt, system_instruction, tokens, temperature) ==
    [api_key |-> api_key,
     gemini_user_prompt |-> prompt,
     gemini_system_instruction |-> system_instruction,
     gemini_max_tokens |-> tokens,
     gemini_temperature |-> temperature,
     gemini_top_p |-> "0.95",
     gemini_top_k |-> 40,
     gemini_candidate_count |-> 1,
     gemini_safety_threshold |-> "BLOCK_ONLY_HIGH",
     model |-> "gemini-3-pro-preview"]

\* the arguments of the library script's example call
LibMainArgs ==
    LibArgs(<<"K", "E", "Y", " ", " ">>, "Hello, how are you?",
            [parts |-> <<[text |-> "You are a helpful assistant."]>>], 1024, "0.7")

\* Init for a set of entry points
InitOf(Entries) ==
    /\ entry \in Entries
    /\ fault = NoFault
    /\ exit_code = -1
    /\ max_tokens = 0
    /\ system_instruction_text = NoneStr
    /\ user_prompt_text = NoneStr
    /\ inline_data = None
    /\ API_KEY = <<>>
    /\ payload = EmptyDict
    /\ sent = <<>>
    /\ response = EmptyDict
    /\ result = EmptyDict
    /\ idx = 0
    /\ part_idx = 0
    /\ files = EmptyDict
    /\ stdout = <<>>
    /\ IF entry = "cli_main"
       THEN /\ argv \in Argvs
            /\ unreadable \in SUBSET Paths
            /\ args = EmptyDict
            /\ pc = "check_args"
       ELSE /\ argv = <<>>
            /\ unreadable = {}
            /\ pc = "build"
            /\ CASE entry = "lib_main" -> args = LibMainArgs
                 [] entry = "cli_call" ->
                      \E p \in Prompts, si \in SystemInstructions, inl \in InlineDatas :
                          args = CliArgs(<<"K", "E", "Y">>, p, 1024, si, inl)
                 [] OTHER ->
                      \E p \in Prompts, si \in SystemInstructions :
                          args = LibArgs(<<"K", "E", "Y">>, p, si, 8192, "1.0")

----------------------------------------------------------------------------
(* The CLI script's __main__ up to the call. *)

\* CheckArgs with the argument count compared to len(sys.argv) itself
CheckArgsCountsScriptName ==
    /\ pc = "check_args"
    /\ IF Len(argv) < 3
       THEN /\ stdout' = Append(stdout, [kind |-> "usage"])
            /\ pc' = "exit"
            /\ exit_code' = 1
            /\ UNCHANGED fault
       ELSE /\ Goto("max_tokens")
            /\ UNCHANGED stdout
    /\ UNCHANGED <<envVars, mainLocals, callVars, extractVars>>

\* if len(sys.argv) < 4: print usage; sys.exit(1)
CheckArgs ==
    /\ pc = "check_args"
    /\ IF Len(argv) < 4
       THEN /\ stdout' = Append(stdout, [kind |-> "usage"])
            /\ pc' = "exit"
            /\ exit_code' = 1
            /\ UNCHANGED fault
       ELSE /\ Goto("max_tokens")
            /\ UNCHANGED stdout
    /\ UNCHANGED <<envVars, mainLocals, callVars, extractVars>>

\* max_tokens = int(sys.argv[1])
ReadMaxTokens ==
    /\ pc = "max_tokens"
    /\ IF IntOf(argv[2]).ok
       THEN /\ max_tokens' = IntOf(argv[2]).value
            /\ Goto("system_instruction")
       ELSE /\ Raise(Exc("ValueError"))
            /\ UNCHANGED max_tokens
    /\ UNCHANGED <<envVars, system_instruction_text, user_prompt_text, inline_data,
                   API_KEY, callVars, extractVars, stdout>>

\* with open(system_instruction_file, 'r') as f: system_instruction_text = f.read()
ReadSystemInstruction ==
    /\ pc = "system_instruction"
    /\ IF argv[3] \in unreadable
       THEN /\ Raise(Exc("OSError"))
            /\ UNCHANGED system_instruction_text
       ELSE /\ system_instruction_text' = FileContents(argv[3])
            /\ Goto("user_prompt")
    /\ UNCHANGED <<envVars, max_tokens, user_prompt_text, inline_data, API_KEY,
                   callVars, extractVars, stdout>>

\* with open(user_prompt_file, 'r') as f: user_prompt_text = f.read()
ReadUserPrompt ==
    /\ pc = "user_prompt"
    /\ IF argv[4] \in unreadable
       THEN /\ Raise(Exc("OSError"))
            /\ UNCHANGED user_prompt_text
       ELSE /\ user_prompt_text' = FileContents(argv[4])
            /\ Goto("binary_file")
    /\ UNCHANGED <<envVars, max_tokens, system_instruction_text, inline_data, API_KEY,
                   callVars, extractVars, stdout>>

\* the attachment encoder: the inline data of a binary file
EncodeAttachment(binary_file) ==
    LET guessed == GuessType(binary_file)
        mime_type == IF ~TruthyStr(guessed) THEN "application/octet-stream" ELSE guessed
    IN  [mime_type |-> mime_type, data |-> b64encode(FileContents(binary_file))]

\* inline_data = None; if len(sys.argv) >= 5: read and encode sys.argv[4]
ReadBinaryFile ==
    /\ pc = "binary_file"
    /\ IF Len(argv) >= 5
       THEN IF argv[5] \in unreadable
            THEN /\ Raise(Exc("OSError"))
                 /\ UNCHANGED inline_data
            ELSE /\ inline_data' = EncodeAttachment(argv[5])
                 /\ Goto("api_key")
       ELSE /\ inline_data' = None
            /\ Goto("api_key")
    /\ UNCHANGED <<envVars, max_tokens, system_instruction_text, user_prompt_text,
                   API_KEY, callVars, extractVars, stdout>>

\* ReadApiKey recovering from an unreadable key file with an empty key
ReadApiKeyRecovers ==
    /\ pc = "api_key"
    /\ API_KEY' = IF "api.key" \in unreadable THEN <<>> ELSE Strip(FileContents("api.key"))
    /\ Goto("call")
    /\ UNCHANGED <<envVars, max_tokens, system_instruction_text, user_prompt_text,
                   inline_data, callVars, extractVars, stdout>>

\* with open('api.key', 'r') as f: API_KEY = f.read().strip()
ReadApiKey ==
    /\ pc = "api_key"
    /\ IF "api.key" \in unreadable
       THEN /\ Raise(Exc("OSError"))
            /\ UNCHANGED API_KEY
       ELSE /\ API_KEY' = Strip(FileContents("api.key"))
            /\ Goto("call")
    /\ UNCHANGED <<envVars, max_tokens, system_instruction_text, user_prompt_text,
                   inline_data, callVars, extractVars, stdout>>

\* result = call_gemini_api(api_key=API_KEY, ...): the call's arguments
CallGeminiApi ==
    /\ pc = "call"
    /\ args' = CliArgs(API_KEY, user_prompt_text, max_tokens,
                       [parts |-> <<[text |-> system_instruction_text]>>], inline_data)
    /\ Goto("build")
    /\ UNCHANGED <<envVars, mainLocals, payload, sent, response, result,
                   extractVars, stdout>>

----------------------------------------------------------------------------
(* call_gemini_api, in both scripts. *)

\* the generationConfig and safetySettings both scripts build
CommonPayload(a, parts) ==
    [contents |-> <<[parts |-> parts]>>,
     generationConfig |->
        [maxOutputTokens |-> a.gemini_max_tokens,
         temperature |-> a.gemini_temperature,
         topP |-> a.gemini_top_p,
         topK |-> a.gemini_top_k,
         candidateCount |-> a.gemini_candidate_count],
     safetySettings |->
        <<[category |-> "HARM_CATEGORY_HATE_SPEECH", threshold |-> a.gemini_safety_threshold],
          [category |-> "HARM_CATEGORY_HARASSMENT", threshold |-> a.gemini_safety_threshold],
          [category |-> "HARM_CATEGORY_SEXUALLY_EXPLICIT", threshold |-> a.gemini_safety_threshold],
          [category |-> "HARM_CATEGORY_DANGEROUS_CONTENT", threshold |-> a.gemini_safety_threshold]>>]

\* CliParts with the inline-data part put before the text part
CliPartsInlineFirst(a) ==
    IF Truthy(a.gemini_inline_data)
    THEN <<[inline_data |-> a.gemini_inline_data], [text |-> a.gemini_user_prompt]>>
    ELSE <<[text |-> a.gemini_user_prompt]>>

\* parts = [{"text": prompt}]; if gemini_inline_data: parts.append(...)
CliParts(a) ==
    IF Truthy(a.gemini_inline_data)
    THEN <<[text |-> a.gemini_user_prompt], [inline_data |-> a.gemini_inline_data]>>
    ELSE <<[text |-> a.gemini_user_prompt]>>

\* WithSystemInstruction setting the key whatever the argument is
WithSystemInstructionAlways(p, a) ==
    ("systemInstruction" :> a.gemini_system_instruction) @@ p

\* if gemini_system_instruction: payload["systemInstruction"] = ...
WithSystemInstruction(p, a) ==
    IF Truthy(a.gemini_system_instruction)
    THEN ("systemInstruction" :> a.gemini_system_instruction) @@ p
    ELSE p

\* the payload of the CLI script
CliPayload(a) == WithSystemInstruction(CommonPayload(a, CliParts(a)), a)

\* the payload of the library script
LibPayload(a) ==
    WithSystemInstruction(CommonPayload(a, <<[text |-> a.gemini_user_prompt]>>), a)

\* the URL of the request
Url(a) ==
    [host |-> "generativelanguage.googleapis.com",
     version |-> IF IsCli THEN a.gemini_api_version ELSE "v1beta",
     model |-> a.model,
     key |-> a.api_key]

BuildPayloadCli ==
    /\ pc = "build"
    /\ IsCli
    /\ payload' = CliPayload(args)
    /\ Goto("post")
    /\ UNCHANGED <<envVars, mainLocals, args, sent, response, result, extractVars, stdout>>

BuildPayloadLib ==
    /\ pc = "build"
    /\ ~IsCli
    /\ payload' = LibPayload(args)
    /\ Goto("post")
    /\ UNCHANGED <<envVars, mainLocals, args, sent, response, result, extractVars, stdout>>

\* the request requests.post sends
Request ==
    [url |-> Url(args),
     headers |-> [ContentType |-> "application/json"],
     data |-> JsonDumps(payload)]

\* response = requests.post(url, headers=headers, data=json.dumps(payload)):
\* the service answers
Post ==
    /\ pc = "post"
    /\ sent' = Append(sent, Request)
    /\ response' \in ServerResponses
    /\ Goto(IF IsCli THEN "check_ok" ELSE "raise_for_status")
    /\ UNCHANGED <<envVars, mainLocals, args, payload, result, extractVars, stdout>>

\* requests.post raises: no answer arrives
PostFails ==
    /\ pc = "post"
    /\ sent' = Append(sent, Request)
    /\ Raise(Exc("ConnectionError"))
    /\ UNCHANGED <<envVars, mainLocals, args, payload, response, result, extractVars, stdout>>

\* Response.raise_for_status raises HTTPError for 400 <= status_code < 600
RaisesForStatus(r) == 400 <= r.status_code /\ r.status_code < 600

\* Response.ok: raise_for_status does not raise
Ok(r) == ~RaisesForStatus(r)

\* CheckOk printing the error and going on to parse the body
CheckOkGoesOn ==
    /\ pc = "check_ok"
    /\ IF ~Ok(response)
       THEN stdout' = Append(stdout, [kind |-> "error",
                                      status_code |-> response.status_code,
                                      text |-> response.text])
       ELSE UNCHANGED stdout
    /\ Goto("json")
    /\ UNCHANGED <<envVars, mainLocals, callVars, extractVars>>

\* if not response.ok: print(f"Error {status_code}: {text}"); response.raise_for_status()
CheckOk ==
    /\ pc = "check_ok"
    /\ IF ~Ok(response)
       THEN /\ stdout' = Append(stdout, [kind |-> "error",
                                         status_code |-> response.status_code,
                                         text |-> response.text])
            /\ IF RaisesForStatus(response) THEN Raise(HTTPError(response)) ELSE Goto("json")
       ELSE /\ Goto("json")
            /\ UNCHANGED stdout
    /\ UNCHANGED <<envVars, mainLocals, callVars, extractVars>>

\* RaiseForStatus left out: the body is parsed whatever the status
RaiseForStatusLeftOut ==
    /\ pc = "raise_for_status"
    /\ Goto("json")
    /\ UNCHANGED <<envVars, mainLocals, callVars, extractVars, stdout>>

\* response.raise_for_status(), in the library script
RaiseForStatus ==
    /\ pc = "raise_for_status"
    /\ IF RaisesForStatus(response) THEN Raise(HTTPError(response)) ELSE Goto("json")
    /\ UNCHANGED <<envVars, mainLocals, callVars, extractVars, stdout>>

\* AfterCall with the CLI script printing the result without extracting
AfterCallSkipsExtract ==
    CASE entry = "cli_main" -> "print"
      [] entry = "lib_main" -> "print"
      [] OTHER -> "returned"

\* where a caller of call_gemini_api goes on
AfterCall ==
    CASE entry = "cli_main" -> "extract"
      [] entry = "lib_main" -> "print"
      [] OTHER -> "returned"

\* return response.json()
ReturnJson ==
    /\ pc = "json"
    /\ IF JsonLoads(response.text).ok
       THEN /\ result' = JsonLoads(response.text).value
            /\ Goto(AfterCall)
       ELSE /\ Raise(Exc("JSONDecodeError"))
            /\ UNCHANGED result
    /\ UNCHANGED <<envVars, mainLocals, args, payload, sent, response, extractVars, stdout>>

----------------------------------------------------------------------------
(* The CLI script's response artifact extractor. *)

\* f"output_{timestamp}_c{idx}_p{part_idx}{extension}"; the timestamp and the
\* extension are single tokens, the rest is spelled out in characters
Filename(timestamp, i, j, extension) ==
    <<"o", "u", "t", "p", "u", "t", "_", timestamp, "_", "c">> \o Str(i)
        \o <<"_", "p">> \o Str(j) \o <<extension>>

\* mimetypes.guess_extension(mime_type) or ".bin"
ExtensionOf(inline) ==
    LET mime_type == Get(inline, "mime_type", "application/octet-stream")
        guessed == GuessExtension(mime_type)
    IN  IF TruthyStr(guessed) THEN guessed ELSE ".bin"

\* open(filename, 'wb') and a write of data: the file holds data
WriteFile(fs, filename, data) ==
    [n \in DOMAIN fs \cup {filename} |-> IF n = filename THEN data ELSE fs[n]]

\* what a failed write may leave of a byte string: a prefix of it
Partial(b) == {SubSeq(b, 1, n) : n \in 0..Len(b)}

\* if "candidates" in result:
EnterExtract ==
    /\ pc = "extract"
    /\ IF "candidates" \in DOMAIN result
       THEN Goto("for_candidates")
       ELSE Goto("print")
    /\ UNCHANGED <<envVars, mainLocals, callVars, extractVars, stdout>>

\* for idx, candidate in enumerate(result["candidates"]):
\*     if "content" in candidate and "parts" in candidate["content"]:
ForCandidate ==
    /\ pc = "for_candidates"
    /\ IF idx >= Len(result.candidates)
       THEN /\ Goto("print")
            /\ UNCHANGED <<idx, part_idx>>
       ELSE LET candidate == result.candidates[idx + 1]
            IN  IF "content" \in DOMAIN candidate /\ "parts" \in DOMAIN candidate.content
                THEN /\ part_idx' = 0
                     /\ Goto("for_parts")
                     /\ UNCHANGED idx
                ELSE /\ idx' = idx + 1
                     /\ Goto("for_candidates")
                     /\ UNCHANGED part_idx
    /\ UNCHANGED <<envVars, mainLocals, callVars, files, stdout>>

\* the part the inner loop is at
CurrentParts == result.candidates[idx + 1].content.parts
AtPart == pc = "for_parts" /\ part_idx < Len(CurrentParts)
CurrentPart == CurrentParts[part_idx + 1]

\* the inner loop ends: on to the next candidate
EndParts ==
    /\ pc = "for_parts"
    /\ part_idx >= Len(CurrentParts)
    /\ idx' = idx + 1
    /\ Goto("for_candidates")
    /\ UNCHANGED <<envVars, mainLocals, callVars, part_idx, files, stdout>>

\* if "inline_data" in part: false
SkipPart ==
    /\ AtPart
    /\ "inline_data" \notin DOMAIN CurrentPart
    /\ part_idx' = part_idx + 1
    /\ Goto("for_parts")
    /\ UNCHANGED <<envVars, mainLocals, callVars, idx, files, stdout>>

\* part["inline_data"]["data"] raises KeyError
MissingData ==
    /\ AtPart
    /\ "inline_data" \in DOMAIN CurrentPart
    /\ "data" \notin DOMAIN CurrentPart.inline_data
    /\ Raise(Exc("KeyError"))
    /\ UNCHANGED <<envVars, mainLocals, callVars, extractVars, stdout>>

\* DecodeFails with the file opened before the payload is decoded
DecodeFailsAfterOpen ==
    /\ AtPart
    /\ "inline_data" \in DOMAIN CurrentPart
    /\ "data" \in DOMAIN CurrentPart.inline_data
    /\ ~b64decode(CurrentPart.inline_data.data).ok
    /\ \E timestamp \in Timestamps :
          files' = [n \in DOMAIN files \cup
                        {Filename(timestamp, idx, part_idx, ".bin")} |->
                            IF n \in DOMAIN files THEN files[n] ELSE <<>>]
    /\ Raise(Exc("binascii.Error"))
    /\ UNCHANGED <<envVars, mainLocals, callVars, idx, part_idx, stdout>>

\* base64.b64decode raises binascii.Error
DecodeFails ==
    /\ AtPart
    /\ "inline_data" \in DOMAIN CurrentPart
    /\ "data" \in DOMAIN CurrentPart.inline_data
    /\ ~b64decode(CurrentPart.inline_data.data).ok
    /\ Raise(Exc("binascii.Error"))
    /\ UNCHANGED <<envVars, mainLocals, callVars, extractVars, stdout>>

\* the part's payload decodes
Decodable ==
    /\ AtPart
    /\ "inline_data" \in DOMAIN CurrentPart
    /\ "data" \in DOMAIN CurrentPart.inline_data
    /\ b64decode(CurrentPart.inline_data.data).ok

\* the name of the current part's file, at a timestamp
CurrentFilename(timestamp) ==
    Filename(timestamp, idx, part_idx, ExtensionOf(CurrentPart.inline_data))

\* the file is written and announced
WritePart ==
    /\ Decodable
    /\ \E timestamp \in Timestamps :
        LET filename == CurrentFilename(timestamp)
            binary_data == b64decode(CurrentPart.inline_data.data).bytes
        IN  /\ files' = WriteFile(files, filename, binary_data)
            /\ stdout' = Append(stdout, [kind |-> "written", filename |-> filename])
    /\ part_idx' = part_idx + 1
    /\ Goto("for_parts")
    /\ UNCHANGED <<envVars, mainLocals, callVars, idx>>

\* open(filename, 'wb') raises OSError: no file is created
OpenFails ==
    /\ Decodable
    /\ Raise(Exc("OSError"))
    /\ UNCHANGED <<envVars, mainLocals, callVars, extractVars, stdout>>

\* f.write or the close raises OSError: the file exists, holding a prefix
\* of the data
WriteFails ==
    /\ Decodable
    /\ \E timestamp \in Timestamps :
        \E written \in Partial(b64decode(CurrentPart.inline_data.data).bytes) :
            files' = WriteFile(files, CurrentFilename(timestamp), written)
    /\ Raise(Exc("OSError"))
    /\ UNCHANGED <<envVars, mainLocals, callVars, idx, part_idx, stdout>>

\* print(json.dumps(result, indent=2))
PrintJson ==
    /\ pc = "print"
    /\ stdout' = Append(stdout, [kind |-> "json", text |-> JsonDumps(result)])
    /\ Goto("done")
    /\ UNCHANGED <<envVars, mainLocals, callVars, extractVars>>

----------------------------------------------------------------------------

\* a run of the CLI script
Next ==
    \/ CheckArgs
    \/ ReadMaxTokens
    \/ ReadSystemInstruction
    \/ ReadUserPrompt
    \/ ReadBinaryFile
    \/ ReadApiKey
    \/ CallGeminiApi
    \/ BuildPayloadCli
    \/ Post
    \/ PostFails
    \/ CheckOk
    \/ ReturnJson
    \/ EnterExtract
    \/ ForCandidate
    \/ EndParts
    \/ SkipPart
    \/ MissingData
    \/ DecodeFails
    \/ WritePart
    \/ OpenFails
    \/ WriteFails
    \/ PrintJson

Init == InitOf({"cli_main"})

Spec == Init /\ [][Next]_vars

\* a run of the library script, or a direct call of either call_gemini_api
NextCall ==
    \/ BuildPayloadCli
    \/ BuildPayloadLib
    \/ Post
    \/ PostFails
    \/ CheckOk
    \/ RaiseForStatus
    \/ ReturnJson
    \/ PrintJson

InitCall == InitOf({"lib_main", "cli_call", "lib_call"})

SpecCall == InitCall /\ [][NextCall]_vars

----------------------------------------------------------------------------
(* Vocabulary of the properties. *)

\* an HTTP response has arrived
Received == "status_code" \in DOMAIN response

\* the positions of a run that has got past requests.post
AfterPost ==
    {"check_ok", "raise_for_status", "json", "extract", "for_candidates",
     "for_parts", "print", "done", "returned"}

\* the positions of the CLI script before it calls call_gemini_api
BeforeCall ==
    {"check_args", "max_tokens", "system_instruction", "user_prompt",
     "binary_file", "api_key"}

\* the pretty-printed JSON response is on stdout
JsonPrinted == \E i \in 1..Len(stdout) : stdout[i].kind = "json"

\* number of command-line arguments, the script name not counted
NArgs == Len(argv) - 1

----------------------------------------------------------------------------
(* C5: started with fewer than 3 arguments the CLI script prints the usage *)
(* message and exits with status 1, having read no file and sent no        *)
(* request; with 3 or more arguments it never takes the usage exit.        *)
C5_UsageExit ==
    /\ (NArgs < 3 /\ pc # "check_args") =>
          /\ pc = "exit"
          /\ exit_code = 1
          /\ stdout = <<[kind |-> "usage"]>>
          /\ fault = NoFault
          /\ system_instruction_text = NoneStr
          /\ user_prompt_text = NoneStr
          /\ inline_data = None
          /\ API_KEY = <<>>
          /\ sent = <<>>
    /\ NArgs >= 3 =>
          /\ pc # "exit"
          /\ exit_code = -1
          /\ \A i \in 1..Len(stdout) : stdout[i].kind # "usage"

\* C5's case: two arguments, and the script has exited
C5_Witness == NArgs = 2 /\ pc = "exit"

----------------------------------------------------------------------------
\* the local files a run of the CLI script has to read
RequiredFiles ==
    {argv[3], argv[4], "api.key"} \cup (IF Len(argv) >= 5 THEN {argv[5]} ELSE {})

(* C8: if a local input of the CLI script cannot be read, the run ends     *)
(* with an uncaught fault, having sent no request, written no file and     *)
(* printed no JSON; a request is sent only after every input was read, and *)
(* the key file is read last.                                              *)
C8_UnreadableInputIsFatal ==
    /\ (NArgs >= 3 /\ RequiredFiles \cap unreadable # {}) =>
          /\ pc \in BeforeCall \cup {"fault"}
          /\ pc = "fault" => fault.exc \in {"OSError", "ValueError"}
          /\ sent = <<>>
          /\ files = EmptyDict
          /\ ~JsonPrinted
    /\ API_KEY # <<>> =>
          /\ system_instruction_text = FileContents(argv[3])
          /\ user_prompt_text = FileContents(argv[4])
          /\ Len(argv) >= 5 => inline_data # None
    /\ sent # <<>> =>
          /\ API_KEY = Strip(FileContents("api.key"))
          /\ RequiredFiles \cap unreadable = {}

\* C8's case: the key file is the unreadable one, found after the
\* attachment was read
C8_Witness ==
    /\ pc = "fault"
    /\ fault = Exc("OSError")
    /\ "api.key" \in unreadable
    /\ inline_data # None
    /\ user_prompt_text # NoneStr

----------------------------------------------------------------------------
\* what the CLI script prints for an error response
ErrorLine == [kind |-> "error", status_code |-> response.status_code, text |-> response.text]

\* the run ended in call_gemini_api on the HTTP error, with the status and
\* the body printed and nothing else done
FailedOnStatus ==
    /\ pc = "fault"
    /\ fault.exc = "HTTPError"
    /\ stdout = <<ErrorLine>>
    /\ result = EmptyDict
    /\ files = EmptyDict
    /\ ~JsonPrinted
    /\ Len(sent) = 1

----------------------------------------------------------------------------
(* Vocabulary of the extractor's properties. *)

\* the (candidate index, part index) pairs of the parts of a response that
\* contain an inline-data field
InlinePairs(r) ==
    IF "candidates" \notin DOMAIN r THEN {}
    ELSE UNION {
            LET c == r.candidates[i + 1]
            IN  IF "content" \in DOMAIN c /\ "parts" \in DOMAIN c.content
                THEN {<<i, j>> : j \in {k \in 0..(Len(c.content.parts) - 1) :
                                           "inline_data" \in DOMAIN c.content.parts[k + 1]}}
                ELSE {} :
            i \in 0..(Len(r.candidates) - 1) }

\* the inline-data object of such a pair
InlineOf(r, pair) == r.candidates[pair[1] + 1].content.parts[pair[2] + 1].inline_data

\* the extension the file of an inline-data object is to carry
ExpectedExtension(inline) ==
    IF "mime_type" \in DOMAIN inline /\ inline.mime_type = "image/png" THEN ".png" ELSE ".bin"

\* the names, among the files written, of the file of a pair
FilesOf(r, pair) ==
    {n \in DOMAIN files :
        \E ts \in Timestamps :
            n = Filename(ts, pair[1], pair[2], ExpectedExtension(InlineOf(r, pair)))}

\* the pair has its file: one file, holding the decoded bytes of its payload
Written(r, pair) ==
    /\ "data" \in DOMAIN InlineOf(r, pair)
    /\ b64decode(InlineOf(r, pair).data).ok
    /\ Cardinality(FilesOf(r, pair)) = 1
    /\ \A n \in FilesOf(r, pair) : files[n] = b64decode(InlineOf(r, pair).data).bytes

\* a successful response has been parsed and handed to the extractor
Parsed ==
    /\ Received
    /\ Ok(response)
    /\ JsonLoads(response.text).ok
    /\ result = JsonLoads(response.text).value
    /\ pc \in {"extract", "for_candidates", "for_parts", "print", "done", "fault"}

\* the pair comes before the extractor's position
Earlier(pair) == pair[1] < idx \/ (pair[1] = idx /\ pair[2] < part_idx)

----------------------------------------------------------------------------
(* C9: a run of the CLI script builds the payload, sends the request,      *)
(* parses the successful response, writes the inline-data files and then   *)
(* prints the JSON: one POST per run that reaches the transport, no file   *)
(* before a successful response was parsed, and the JSON only after every  *)
(* inline-data part of the response has its file.                          *)
C9_Order ==
    /\ Len(sent) <= 1
    /\ (pc \in AfterPost \/ Received \/ fault.exc = "ConnectionError") => Len(sent) = 1
    /\ sent # <<>> => /\ "contents" \in DOMAIN payload
                      /\ sent[1].data = JsonDumps(payload)
    /\ pc \in BeforeCall \cup {"call", "build", "post"} => sent = <<>> /\ ~Received
    /\ files # EmptyDict => Parsed
    /\ JsonPrinted =>
          /\ Parsed
          /\ pc = "done"
          /\ stdout[Len(stdout)] = [kind |-> "json", text |-> JsonDumps(result)]
          /\ \A pair \in InlinePairs(result) : Written(result, pair)
          /\ Cardinality(DOMAIN files) = Cardinality(InlinePairs(result))

\* C9's case: a response with two inline-data parts, both written, and the
\* JSON printed
C9_Witness ==
    /\ pc = "done"
    /\ JsonPrinted
    /\ Cardinality(InlinePairs(result)) = 2
    /\ Cardinality(DOMAIN files) = 2

----------------------------------------------------------------------------
\* the inline-data pairs the extractor got past before it failed
EarlierPairs == {pair \in InlinePairs(result) : Earlier(pair)}

\* the files of those pairs
EarlierFiles == UNION {FilesOf(result, pair) : pair \in EarlierPairs}

\* the extractor failed on the part at (idx, part_idx)
ExtractFailed == pc = "fault" /\ Parsed

(* C10 as stated: if processing an inline-data part fails after k earlier  *)
(* inline-data parts were processed, the run ends with exactly those k     *)
(* files on disk and the JSON not printed.                                 *)
C10_ExactlyEarlierFiles ==
    ExtractFailed =>
        /\ \A pair \in EarlierPairs : Written(result, pair)
        /\ DOMAIN files = EarlierFiles
        /\ ~JsonPrinted

(* C10, amended: the run ends with those k files intact, no file of any    *)
(* later part and the JSON not printed; the failing part leaves no file    *)
(* when its payload is missing or undecodable or its file cannot be        *)
(* opened, and when the write to its opened file fails it leaves one more  *)
(* file, holding a prefix of its decoded bytes.                            *)
C10_EarlierFilesKept ==
    ExtractFailed =>
        /\ \A pair \in EarlierPairs : Written(result, pair)
        /\ ~JsonPrinted
        /\ <<idx, part_idx>> \in InlinePairs(result)
        /\ LET more == DOMAIN files \ EarlierFiles
           IN  IF fault.exc = "OSError"
               THEN /\ Cardinality(more) <= 1
                    /\ \A n \in more :
                          /\ n \in FilesOf(result, <<idx, part_idx>>)
                          /\ files[n] \in Partial(
                                b64decode(InlineOf(result, <<idx, part_idx>>).data).bytes)
               ELSE more = {}

\* C10's case: one part was written and the next one cannot be decoded
C10_Witness ==
    /\ ExtractFailed
    /\ fault.exc = "binascii.Error"
    /\ Cardinality(EarlierPairs) = 1
    /\ Cardinality(DOMAIN files) = 1

----------------------------------------------------------------------------
\* every payload a response carries is base64 that decodes
PayloadsDecodable(r) ==
    \A pair \in InlinePairs(r) :
        "data" \in DOMAIN InlineOf(r, pair) => b64decode(InlineOf(r, pair).data).ok

\* the run is over
Terminated == pc \in {"done", "fault", "exit", "returned"}

\* a run on a successful response ended, and not on a file it could not
\* write
ExtractEnded == Terminated /\ Parsed /\ fault.exc # "OSError"

(* C3 as stated: for every successful response the extractor writes one    *)
(* file per (candidate index, part index) pair whose part contains an      *)
(* inline-data field and no other file; the files have pairwise distinct   *)
(* names, each holds the decoded bytes of its own part's payload and       *)
(* carries the extension of its part's MIME type, or the generic one.      *)
C3_OneFilePerInlinePart ==
    (ExtractEnded /\ PayloadsDecodable(result)) =>
        /\ \A pair \in InlinePairs(result) : Written(result, pair)
        /\ Cardinality(DOMAIN files) = Cardinality(InlinePairs(result))

\* some key the extractor looks for is absent from the response
SomeKeyMissing(r) ==
    \/ "candidates" \notin DOMAIN r
    \/ /\ "candidates" \in DOMAIN r
       /\ \E i \in 1..Len(r.candidates) :
            LET c == r.candidates[i]
            IN  \/ "content" \notin DOMAIN c
                \/ /\ "content" \in DOMAIN c
                   /\ \/ "parts" \notin DOMAIN c.content
                      \/ /\ "parts" \in DOMAIN c.content
                         /\ \E j \in 1..Len(c.content.parts) :
                              LET part == c.content.parts[j]
                              IN  \/ "inline_data" \notin DOMAIN part
                                  \/ /\ "inline_data" \in DOMAIN part
                                     /\ \/ "mime_type" \notin DOMAIN part.inline_data
                                        \/ "data" \notin DOMAIN part.inline_data

(* C4 as stated: a response in which `candidates`, a candidate's           *)
(* `content`, a content's `parts`, a part's `inline_data`, or an           *)
(* inline-data object's `mime_type` or `data` is missing is extracted      *)
(* without raising, and the JSON response is printed.                      *)
C4_MissingKeysTolerated ==
    (ExtractEnded /\ PayloadsDecodable(result) /\ SomeKeyMissing(result)) =>
        /\ pc = "done"
        /\ fault = NoFault
        /\ JsonPrinted

----------------------------------------------------------------------------
(* Properties of call_gemini_api, called with arguments of the caller's    *)
(* choice.                                                                 *)

\* the payload has been built
Built == "contents" \in DOMAIN payload

(* C6 as stated: in both scripts the payload has a `systemInstruction` key *)
(* if and only if the system-instruction argument is not None, and with    *)
(* the key holds the argument unchanged.                                   *)
C6_KeyIffNotNone ==
    Built =>
        /\ "systemInstruction" \in DOMAIN payload <=> args.gemini_system_instruction # None
        /\ "systemInstruction" \in DOMAIN payload =>
              payload.systemInstruction = args.gemini_system_instruction

(* C6, amended: the payload has the key if and only if the argument is     *)
(* neither None nor an empty object; with the key it holds the argument    *)
(* unchanged, and without it the key is absent altogether.                 *)
C6_KeyIffNonEmpty ==
    Built =>
        /\ "systemInstruction" \in DOMAIN payload <=>
              (/\ args.gemini_system_instruction # None
               /\ args.gemini_system_instruction # EmptyDict)
        /\ "systemInstruction" \in DOMAIN payload =>
              payload.systemInstruction = args.gemini_system_instruction
        /\ DOMAIN payload \subseteq
              {"contents", "generationConfig", "safetySettings", "systemInstruction"}

\* C6's case: the library script's function called without a system
\* instruction, and the payload built
C6_Witness ==
    /\ entry = "lib_call"
    /\ Built
    /\ args.gemini_system_instruction = None
    /\ "systemInstruction" \notin DOMAIN payload

\* the parts of the payload's content block
PayloadParts == payload.contents[1].parts

\* the parts hold the text part first and the attachment, if any, second
PartsAre(withInline) ==
    /\ Len(payload.contents) = 1
    /\ PayloadParts[1] = [text |-> args.gemini_user_prompt]
    /\ IF withInline
       THEN /\ Len(PayloadParts) = 2
            /\ PayloadParts[2] = [inline_data |-> args.gemini_inline_data]
       ELSE Len(PayloadParts) = 1

(* C7 as stated: in the CLI script `contents` has one block whose parts[0] *)
(* is the text part holding the prompt unchanged; parts[1] is the          *)
(* inline-data part holding the attachment exactly when the attachment     *)
(* argument is not None, and there is no other part.                       *)
C7_InlineIffNotNone ==
    (Built /\ IsCli) => PartsAre(args.gemini_inline_data # None)

(* C7, amended: the same, with the inline-data part present exactly when   *)
(* the attachment argument is neither None nor an empty object.            *)
C7_InlineIffNonEmpty ==
    (Built /\ IsCli) =>
        PartsAre(args.gemini_inline_data # None /\ args.gemini_inline_data # EmptyDict)

\* C7's case: the function called with an attachment, and the payload built
C7_Witness ==
    /\ entry = "cli_call"
    /\ Built
    /\ args.gemini_inline_data # None
    /\ Len(PayloadParts) = 2

====
